---- MODULE Spec2Model ----
(***************************************************************************)
(* Model of src/dash.py: the log ingestion pass load_all_data, the empty   *)
(* guard that follows it, the daily counts and the first/last event        *)
(* summary.                                                                *)
(*                                                                         *)
(* Strings are sequences of one-character strings, so that lower(),        *)
(* endswith(), split(), the substring test, sorted() and capitalize() are  *)
(* computed character by character as Python computes them.  A path is the *)
(* sequence of its components below the base path.                         *)
(***************************************************************************)
EXTENDS Integers, Sequences, FiniteSets

VARIABLES
  fs,             \* the directory tree under base_path, read only
  pc,             \* position of the script
  modes_left,     \* rest of the loop  for mode in ["entry", "exit"]
  mode,           \* loop variable mode
  folders_left,   \* rest of the loop  for folder in os.listdir(mode_path)
  folder,         \* loop variable folder
  csv_files,      \* sorted list of the folder's .csv names
  i,              \* loop variable of enumerate(csv_files)
  all_data,       \* list of the data frames appended so far
  printed,        \* csv paths of the "Skipping ..." lines printed
  df_all,         \* the table load_all_data returned
  dates_left,     \* rest of the loop  for date in sorted(df_all["date"].unique())
  event_summary   \* list of the first/last rows appended so far

vars == <<fs, pc, modes_left, mode, folders_left, folder, csv_files, i,
          all_data, printed, df_all, dates_left, event_summary>>

(***************************************************************************)
(* Bounds of the model.                                                    *)
(***************************************************************************)
MaxFiles == 5
MaxRows == 2
MaxDirs == 2
MaxFolders == 2

(***************************************************************************)
(* Characters and Python's string operations.                              *)
(***************************************************************************)
\* The characters used, in ascending code point order.
CodeChars ==
  <<" ","-",".","0","1","2","3","4","5","6","7","8","9",
    "A","B","C","D","E","F","G","H","I","J","K","L","M","N","O","P","Q","R",
    "S","T","U","V","W","X","Y","Z","_",
    "a","b","c","d","e","f","g","h","i","j","k","l","m","n","o","p","q","r",
    "s","t","u","v","w","x","y","z">>

\* ord(c), up to the gaps between the characters used
OrdTable == [c \in {CodeChars[k] : k \in 1..Len(CodeChars)} |->
               CHOOSE k \in 1..Len(CodeChars) : CodeChars[k] = c]
Ord(c) == OrdTable[c]

UpperFirst == Ord("A")
LowerFirst == Ord("a")

IsUpperChar(c) == Ord(c) >= UpperFirst /\ Ord(c) < UpperFirst + 26
IsLowerChar(c) == Ord(c) >= LowerFirst /\ Ord(c) < LowerFirst + 26

LowerChar(c) == IF IsUpperChar(c) THEN CodeChars[Ord(c) - UpperFirst + LowerFirst] ELSE c
UpperChar(c) == IF IsLowerChar(c) THEN CodeChars[Ord(c) - LowerFirst + UpperFirst] ELSE c

\* str.lower()
Lower(s) == [k \in 1..Len(s) |-> LowerChar(s[k])]

\* str.capitalize()
Capitalize(s) ==
  [k \in 1..Len(s) |-> IF k = 1 THEN UpperChar(s[k]) ELSE LowerChar(s[k])]

\* s[a:b] with 1-based inclusive bounds
Slice(s, a, b) == [k \in 1..(b - a + 1) |-> s[a + k - 1]]

\* s.endswith(suffix)
EndsWith(s, suffix) ==
  /\ Len(suffix) <= Len(s)
  /\ Slice(s, Len(s) - Len(suffix) + 1, Len(s)) = suffix

\* the positions at which sub occurs in s
Occurrences(s, sub) ==
  {k \in 1..(Len(s) + 1) :
     k + Len(sub) - 1 <= Len(s) /\ Slice(s, k, k + Len(sub) - 1) = sub}

\* sub in s
Contains(s, sub) == Occurrences(s, sub) # {}

Min(S) == CHOOSE x \in S : \A y \in S : x <= y

\* s.split(sep)[0]
SplitFirst(s, sep) ==
  IF Contains(s, sep) THEN Slice(s, 1, Min(Occurrences(s, sep)) - 1) ELSE s

\* a < b for Python strings: by code point, a proper prefix first
StrLess(a, b) ==
  \E k \in 1..(Len(b)) :
    /\ k <= Len(a) + 1
    /\ \A j \in 1..(k - 1) : a[j] = b[j]
    /\ IF k = Len(a) + 1 THEN TRUE ELSE Ord(a[k]) < Ord(b[k])

\* sorted(S) for a set of strings
RECURSIVE SortedStrings(_)
SortedStrings(S) ==
  IF S = {} THEN <<>>
  ELSE LET least == CHOOSE x \in S : \A y \in S \ {x} : StrLess(x, y)
       IN  <<least>> \o SortedStrings(S \ {least})

\* the elements of a sequence
Range(s) == {s[k] : k \in 1..Len(s)}

\* sorted(lst) for a list of strings (duplicates cannot occur in a listing)
Sorted(lst) == SortedStrings(Range(lst))

\* [x for x in lst if Test(x)]
FilterSeq(lst, Test(_)) == SelectSeq(lst, Test)

(***************************************************************************)
(* pd.to_datetime(folder, format="%d-%m-%Y").date()                         *)
(***************************************************************************)
IsDigit(c) == Ord(c) >= Ord("0") /\ Ord(c) <= Ord("9")
DigitVal(c) == Ord(c) - Ord("0")

AllDigits(s) == \A k \in 1..Len(s) : IsDigit(s[k])

RECURSIVE Num(_)
Num(s) == IF s = <<>> THEN 0 ELSE 10 * Num(Slice(s, 1, Len(s) - 1)) + DigitVal(s[Len(s)])

\* s.split(sep) for a one-character separator
RECURSIVE SplitChar(_, _)
SplitChar(s, sep) ==
  IF \A k \in 1..Len(s) : s[k] # sep THEN <<s>>
  ELSE LET p == Min({k \in 1..Len(s) : s[k] = sep})
       IN  <<Slice(s, 1, p - 1)>> \o SplitChar(Slice(s, p + 1, Len(s)), sep)

IsLeap(y) == (y % 4 = 0 /\ y % 100 # 0) \/ y % 400 = 0

DaysInMonth(m, y) ==
  IF m = 2 THEN (IF IsLeap(y) THEN 29 ELSE 28)
  ELSE IF m \in {4, 6, 9, 11} THEN 30 ELSE 31

\* %d and %m take one or two digits, %Y exactly four; the whole name must match
\* and the day must exist in the month.
DateMatches(s) ==
  LET f == SplitChar(s, "-") IN
  /\ Len(f) = 3
  /\ \A k \in 1..3 : f[k] # <<>> /\ AllDigits(f[k])
  /\ Len(f[1]) <= 2 /\ Len(f[2]) <= 2 /\ Len(f[3]) = 4
  /\ Num(f[2]) \in 1..12
  /\ Num(f[1]) >= 1
  /\ Num(f[1]) <= DaysInMonth(Num(f[2]), Num(f[3]))

\* the date as <<year, month, day>>
ParseDate(s) ==
  LET f == SplitChar(s, "-") IN <<Num(f[3]), Num(f[2]), Num(f[1])>>

\* date1 < date2
DateLess(a, b) ==
  \/ a[1] < b[1]
  \/ a[1] = b[1] /\ a[2] < b[2]
  \/ a[1] = b[1] /\ a[2] = b[2] /\ a[3] < b[3]

\* sorted(S) for a set of dates
RECURSIVE SortedDates(_)
SortedDates(S) ==
  IF S = {} THEN <<>>
  ELSE LET least == CHOOSE x \in S : \A y \in S \ {x} : DateLess(x, y)
       IN  <<least>> \o SortedDates(S \ {least})

\* None, and a value that is not None
None == [null |-> TRUE]
Some(x) == [null |-> FALSE, v |-> x]

(***************************************************************************)
(* The file system below base_path.                                        *)
(*   fs.exists         base_path exists                                    *)
(*   fs.caseSensitive  names are looked up exactly (else ignoring case)    *)
(*   fs.modes          the directories in base_path, each                  *)
(*                     [name, folders], folders in os.listdir order, each  *)
(*                     [name, isdir, files, dirs]: files in os.listdir     *)
(*                     order, each [name, content]; dirs the folder's      *)
(*                     subdirectories, each [name, images].                *)
(* A content is [readable, columns, rows]: readable is FALSE when          *)
(* pd.read_csv raises, columns is the set of column names of the header,   *)
(* rows the data rows, each [id, plate, image].                            *)
(***************************************************************************)
\* whether a directory entry called have answers to the name want
NameMatch(have, want) ==
  IF fs.caseSensitive THEN have = want ELSE Lower(have) = Lower(want)

\* the entries of a list of entries that answer to a name
Lookup(entries, want) == {e \in Range(entries) : NameMatch(e.name, want)}

ModeDirs(path) == IF fs.exists THEN Lookup(fs.modes, path[1]) ELSE {}

FolderEntries(path) ==
  UNION {Lookup(m.folders, path[2]) : m \in ModeDirs(path)}

DirEntries(path) ==
  UNION {Lookup(f.dirs, path[3]) : f \in {g \in FolderEntries(path) : g.isdir}}

FileEntries(path) ==
  UNION {Lookup(f.files, path[3]) : f \in {g \in FolderEntries(path) : g.isdir}}

\* os.path.exists(path)
PathExists(path) ==
  IF Len(path) = 1 THEN ModeDirs(path) # {}
  ELSE IF Len(path) = 2 THEN FolderEntries(path) # {}
  ELSE IF Len(path) = 3 THEN DirEntries(path) # {} \/ FileEntries(path) # {}
  ELSE \E d \in DirEntries(path) : \E n \in d.images : NameMatch(n, path[4])

\* os.path.isdir(path) for a path of a date folder
IsDir(path) == \E f \in FolderEntries(path) : f.isdir

\* os.path.join(path, name)
PathJoin(path, name) == Append(path, name)

\* os.listdir(path): the names in the directory, in the order the file system
\* returns them
ListDir(path) ==
  IF Len(path) = 1
    THEN LET m == CHOOSE d \in ModeDirs(path) : TRUE
         IN  [k \in 1..Len(m.folders) |-> m.folders[k].name]
    ELSE LET f == CHOOSE d \in FolderEntries(path) : d.isdir
         IN  [k \in 1..Len(f.dirs) |-> f.dirs[k].name]
             \o [k \in 1..Len(f.files) |-> f.files[k].name]

\* what pd.read_csv(path) finds
FileContent(path) == (CHOOSE f \in FileEntries(path) : TRUE).content

(***************************************************************************)
(* load_all_data                                                           *)
(***************************************************************************)
CsvSuffix == <<".","c","s","v">>
EntryLogMark == <<"_","e","n","t","r","y","_","l","o","g">>
ExitLogMark == <<"_","e","x","i","t","_","l","o","g">>
NightWord == <<"n","i","g","h","t">>
ImagesSuffix == <<"_","i","m","a","g","e","s">>
NightImages == <<"n","i","g","h","t","_","i","m","a","g","e","s">>
DayImages == <<"d","a","y","_","i","m","a","g","e","s">>
EntryMode == <<"e","n","t","r","y">>
ExitMode == <<"e","x","i","t">>

\* for mode in ["entry", "exit"]
ModeList == <<EntryMode, ExitMode>>

IsCsvName(f) == EndsWith(f, CsvSuffix)

\* a faulty variant of CsvFiles: the files that will be skipped are left out of the list
CsvFiles_LoadableOnly(folder_path) ==
  LET Loadable(f) ==
        /\ IsCsvName(f)
        /\ \A e \in FileEntries(PathJoin(folder_path, f)) :
             e.content.readable /\ e.content.rows # <<>>
  IN  Sorted(FilterSeq(ListDir(folder_path), Loadable))

\* csv_files = sorted([f for f in os.listdir(folder_path) if f.endswith(".csv")])
CsvFiles(folder_path) == Sorted(FilterSeq(ListDir(folder_path), IsCsvName))

\* a faulty variant of EntryTimeOfDay: the last two files instead of the last three
EntryTimeOfDay_OffByOne(idx, total) == IF idx > total - 3 THEN "Night" ELSE "Day"

\* "Night" if i >= len(csv_files) - 3 else "Day", with Python's signed integers
EntryTimeOfDay(idx, total) == IF idx >= total - 3 THEN "Night" ELSE "Day"

\* a faulty variant of ExitTimeOfDay: the name is not lowered before the test
ExitTimeOfDay_CaseSensitive(csv_file) ==
  IF Contains(csv_file, NightWord) THEN "Night" ELSE "Day"

\* "Night" if "night" in csv_file.lower() else "Day"
ExitTimeOfDay(csv_file) ==
  IF Contains(Lower(csv_file), NightWord) THEN "Night" ELSE "Day"

TimeOfDay(m, idx, total, csv_file) ==
  IF m = EntryMode THEN EntryTimeOfDay(idx, total) ELSE ExitTimeOfDay(csv_file)

\* images_folder of the entry branch
EntryImagesFolder(folder_path, csv_file) ==
  PathJoin(folder_path, SplitFirst(csv_file, EntryLogMark) \o ImagesSuffix)

\* a faulty variant of ExitImagesFolder: the per-date directory is a last fallback
ExitImagesFolder_DateFallback(folder_path, fname, csv_file) ==
  LET word == IF Contains(Lower(csv_file), NightWord) THEN NightImages ELSE DayImages
      first == PathJoin(folder_path, fname \o <<" ">> \o word)
      second == IF Contains(Lower(csv_file), NightWord)
                  THEN PathJoin(folder_path, NightImages)
                  ELSE PathJoin(folder_path, SplitFirst(csv_file, ExitLogMark) \o ImagesSuffix)
  IN  IF PathExists(first) THEN first
      ELSE IF PathExists(second) THEN second
      ELSE PathJoin(folder_path, fname \o ImagesSuffix)

\* images_folder of the exit branch, night and day
ExitImagesFolder(folder_path, fname, csv_file) ==
  IF Contains(Lower(csv_file), NightWord)
    THEN LET night_folder == PathJoin(folder_path, fname \o <<" ">> \o NightImages)
         IN  IF PathExists(night_folder) THEN night_folder
             ELSE PathJoin(folder_path, NightImages)
    ELSE LET day_folder == PathJoin(folder_path, fname \o <<" ">> \o DayImages)
         IN  IF PathExists(day_folder) THEN day_folder
             ELSE PathJoin(folder_path, SplitFirst(csv_file, ExitLogMark) \o ImagesSuffix)

ImagesFolder(m, folder_path, fname, csv_file) ==
  IF m = EntryMode THEN EntryImagesFolder(folder_path, csv_file)
  ELSE ExitImagesFolder(folder_path, fname, csv_file)

\* the try block raises: pd.read_csv fails, the folder name is no date, or
\* df["image"] is evaluated (the images folder exists) and there is no such column
Raises(content, fname, images_folder) ==
  \/ ~content.readable
  \/ /\ content.rows # <<>>
     /\ \/ ~DateMatches(fname)
        \/ PathExists(images_folder) /\ ~content.hasImage

\* a faulty variant of Caught: only the failure of pd.read_csv is caught
Caught_ReadErrorsOnly(content) == ~content.readable

\* except Exception: every exception of the try block is caught
Caught(content) == TRUE

\* a faulty variant of ImagePath: the directory is not looked for
ImagePath_Unchecked(images_folder, image) == Some(PathJoin(images_folder, image))

\* os.path.join(images_folder, x) if images_folder and
\* os.path.exists(images_folder), else None
ImagePath(images_folder, image) ==
  IF images_folder # <<>> /\ PathExists(images_folder)
    THEN Some(PathJoin(images_folder, image))
    ELSE None

\* the rows of df when it is appended; src (the csv path and the row's position
\* in the file) is bookkeeping of the model, not a column
Frame(m, folder_path, fname, csv_file, idx, total, content) ==
  LET images_folder == ImagesFolder(m, folder_path, fname, csv_file) IN
  [k \in 1..Len(content.rows) |->
     [id          |-> content.rows[k].id,
      image       |-> content.rows[k].image,
      date        |-> ParseDate(fname),
      time_of_day |-> TimeOfDay(m, idx, total, csv_file),
      plate       |-> IF content.hasPlate THEN Some(content.rows[k].plate) ELSE None,
      image_path  |-> ImagePath(images_folder, content.rows[k].image),
      mode        |-> Capitalize(m),
      src         |-> [path |-> PathJoin(folder_path, csv_file), row |-> k]]]

\* pd.concat(all_data, ignore_index=True) if all_data else pd.DataFrame()
RECURSIVE Concat(_)
Concat(frames) == IF frames = <<>> THEN <<>> ELSE Head(frames) \o Concat(Tail(frames))

\* one turn of  for mode in ["entry", "exit"], or the return after the loop
NextMode ==
  /\ pc = "modes"
  /\ IF modes_left = <<>>
       THEN /\ df_all' = Concat(all_data)
            /\ pc' = "loaded"
            /\ UNCHANGED <<modes_left, mode, folders_left>>
       ELSE /\ mode' = Head(modes_left)
            /\ modes_left' = Tail(modes_left)
            /\ IF ~PathExists(<<Head(modes_left)>>)
                 THEN UNCHANGED <<pc, folders_left>>
                 ELSE /\ folders_left' = ListDir(<<Head(modes_left)>>)
                      /\ pc' = "folders"
            /\ UNCHANGED df_all
  /\ UNCHANGED <<fs, folder, csv_files, i, all_data, printed, dates_left, event_summary>>

\* one turn of  for folder in os.listdir(mode_path), or its end
NextFolder ==
  /\ pc = "folders"
  /\ IF folders_left = <<>>
       THEN /\ pc' = "modes"
            /\ UNCHANGED <<folders_left, folder, csv_files, i>>
       ELSE /\ folder' = Head(folders_left)
            /\ folders_left' = Tail(folders_left)
            /\ IF ~IsDir(<<mode, Head(folders_left)>>)
                 THEN UNCHANGED <<pc, csv_files, i>>
                 ELSE /\ csv_files' = CsvFiles(<<mode, Head(folders_left)>>)
                      /\ i' = 0
                      /\ pc' = "files"
  /\ UNCHANGED <<fs, modes_left, mode, all_data, printed, df_all, dates_left, event_summary>>

\* one turn of  for i, csv_file in enumerate(csv_files), or its end
NextFile ==
  /\ pc = "files"
  /\ IF i = Len(csv_files)
       THEN /\ pc' = "folders"
            /\ UNCHANGED <<i, all_data, printed>>
       ELSE LET folder_path == <<mode, folder>>
                csv_file == csv_files[i + 1]
                csv_path == PathJoin(folder_path, csv_file)
                content == FileContent(csv_path)
                images_folder == ImagesFolder(mode, folder_path, folder, csv_file)
            IN  IF Raises(content, folder, images_folder)
                  THEN IF Caught(content)
                         THEN /\ printed' = Append(printed, csv_path)
                              /\ i' = i + 1
                              /\ UNCHANGED <<pc, all_data>>
                         ELSE /\ pc' = "raised"
                              /\ UNCHANGED <<i, all_data, printed>>
                  ELSE /\ i' = i + 1
                       /\ all_data' =
                            IF content.rows = <<>> THEN all_data
                            ELSE Append(all_data,
                                        Frame(mode, folder_path, folder, csv_file,
                                              i, Len(csv_files), content))
                       /\ UNCHANGED <<pc, printed>>
  /\ UNCHANGED <<fs, modes_left, mode, folders_left, folder, csv_files, df_all,
                 dates_left, event_summary>>

(***************************************************************************)
(* The script after load_all_data: the empty guard, the filters with their *)
(* default selection, the daily counts and the first/last event summary.   *)
(***************************************************************************)
EntryLabel == <<"E","n","t","r","y">>
ExitLabel == <<"E","x","i","t">>

\* sorted(df["date"].unique())
SortedUniqueDates(df) == SortedDates({df[k].date : k \in 1..Len(df)})

\* filtered_df for a selection of dates, times of day and modes
FilteredDf(df, selected_dates, selected_time, selected_mode) ==
  LET Keep(r) == /\ r.date \in selected_dates
                 /\ r.time_of_day \in selected_time
                 /\ r.mode \in selected_mode
  IN  SelectSeq(df, Keep)

\* filtered_df with the default selection: every date, time of day and mode
DefaultFilteredDf(df) ==
  FilteredDf(df, {df[k].date : k \in 1..Len(df)}, {"Day", "Night"},
             {EntryLabel, ExitLabel})

\* vehicle_count of the group (date, time_of_day, mode) of daily_counts, 0 when
\* the group is absent
DailyCount(df, date, time_of_day, m) ==
  LET InGroup(r) == r.date = date /\ r.time_of_day = time_of_day /\ r.mode = m
  IN  Len(SelectSeq(DefaultFilteredDf(df), InGroup))

\* a faulty variant of SummaryRow: the last event is read from the first row
SummaryRow_LastIsFirst(date, label, mode_df) ==
  [Date |-> date, Mode |-> label,
   FirstVehicleID |-> mode_df[1].id,
   FirstPlate |-> mode_df[1].plate,
   FirstImagePath |-> mode_df[1].image_path,
   LastVehicleID |-> mode_df[1].id,
   LastPlate |-> mode_df[1].plate,
   LastImagePath |-> mode_df[1].image_path]

\* the dictionary appended for one mode of one date
SummaryRow(date, label, mode_df) ==
  [Date |-> date, Mode |-> label,
   FirstVehicleID |-> mode_df[1].id,
   FirstPlate |-> mode_df[1].plate,
   FirstImagePath |-> mode_df[1].image_path,
   LastVehicleID |-> mode_df[Len(mode_df)].id,
   LastPlate |-> mode_df[Len(mode_df)].plate,
   LastImagePath |-> mode_df[Len(mode_df)].image_path]

\* what one turn of the date loop appends: the entry row, then the exit row
SummaryRows(df, date) ==
  LET IsEntry(r) == r.date = date /\ r.mode = EntryLabel
      IsExit(r) == r.date = date /\ r.mode = ExitLabel
      entry_df == SelectSeq(df, IsEntry)
      exit_df == SelectSeq(df, IsExit)
  IN  (IF entry_df # <<>> THEN <<SummaryRow(date, EntryLabel, entry_df)>> ELSE <<>>)
      \o (IF exit_df # <<>> THEN <<SummaryRow(date, ExitLabel, exit_df)>> ELSE <<>>)

\* a faulty variant of EmptyGuard: the script does not stop on an empty table
EmptyGuard_NoStop ==
  /\ pc = "loaded"
  /\ pc' = "summary" /\ dates_left' = SortedUniqueDates(df_all)
  /\ UNCHANGED <<fs, modes_left, mode, folders_left, folder, csv_files, i,
                 all_data, printed, df_all, event_summary>>

\* if df_all.empty: st.warning("No valid data found!"); st.stop()
EmptyGuard ==
  /\ pc = "loaded"
  /\ IF df_all = <<>>
       THEN pc' = "stopped" /\ UNCHANGED dates_left
       ELSE pc' = "summary" /\ dates_left' = SortedUniqueDates(df_all)
  /\ UNCHANGED <<fs, modes_left, mode, folders_left, folder, csv_files, i,
                 all_data, printed, df_all, event_summary>>

\* one turn of  for date in sorted(df_all["date"].unique()), or its end
NextDate ==
  /\ pc = "summary"
  /\ IF dates_left = <<>>
       THEN pc' = "done" /\ UNCHANGED <<dates_left, event_summary>>
       ELSE /\ event_summary' = event_summary \o SummaryRows(df_all, Head(dates_left))
            /\ dates_left' = Tail(dates_left)
            /\ UNCHANGED pc
  /\ UNCHANGED <<fs, modes_left, mode, folders_left, folder, csv_files, i,
                 all_data, printed, df_all>>

Next == NextMode \/ NextFolder \/ NextFile \/ EmptyGuard \/ NextDate

(***************************************************************************)
(* The directory trees the script is run on.                               *)
(***************************************************************************)
Digit(n) == CodeChars[Ord("0") + n]
JpgSuffix == <<".","j","p","g">>

\* the image name of row k of the file numbered f
ImageName(f, k) == <<"v", Digit(f), Digit(k)>> \o JpgSuffix

\* the n data rows of the file numbered f
CsvRows(f, n) ==
  [k \in 1..n |-> [id |-> 10 * f + k,
                   plate |-> <<"P", Digit(f), Digit(k)>>,
                   image |-> ImageName(f, k)]]

\* a file pd.read_csv cannot read
Unreadable == [readable |-> FALSE, hasPlate |-> FALSE, hasImage |-> FALSE, rows |-> <<>>]
\* a csv file with n data rows (a header only when n = 0)
Good(f, n) == [readable |-> TRUE, hasPlate |-> TRUE, hasImage |-> TRUE, rows |-> CsvRows(f, n)]
NoPlate(f, n) == [Good(f, n) EXCEPT !.hasPlate = FALSE]
NoImage(f, n) == [Good(f, n) EXCEPT !.hasImage = FALSE]

\* a content by number: -1 unreadable, n >= 0 a csv file with n rows
ContentOf(f, c) == IF c < 0 THEN Unreadable ELSE Good(f, c)

Date1 == <<"0","1","-","0","1","-","2","0","2","4">>
Date2 == <<"0","2","-","0","1","-","2","0","2","4">>
NoDate == <<"b","a","c","k","u","p">>
BadDate == <<"3","1","-","0","2","-","2","0","2","4">>
PlainFile == <<"r","e","a","d","m","e",".","m","d">>

\* entry file names, in an order that is not the sorted one; the fourth has no
\* "_entry_log" in it
Letters == <<"c","a","B","e","d","f","g","h">>
EntryName(k) ==
  IF k = 4 THEN <<Letters[k]>> \o CsvSuffix
  ELSE <<Letters[k]>> \o EntryLogMark \o CsvSuffix

\* files of an entry folder that are no .csv files
OtherFiles ==
  << [name |-> <<"n","o","t","e","s",".","t","x","t">>, content |-> Unreadable],
     [name |-> <<"z","_","e","n","t","r","y","_","l","o","g",".","C","S","V">>,
      content |-> Good(9, 1)] >>

ExitNames ==
  << <<"n","i","g","h","t","_","e","x","i","t","_","l","o","g",".","c","s","v">>,
     <<"x","_","e","x","i","t","_","l","o","g",".","c","s","v">>,
     <<"N","i","g","h","t","2","_","e","x","i","t","_","l","o","g",".","c","s","v">>,
     <<"a","_","N","I","G","H","T",".","c","s","v">>,
     <<"n","i","g","h","_","t",".","c","s","v">>,
     <<"m","i","d","n","i","g","h","t",".","c","s","v">> >>

\* the sequences without repetition of at most n elements of S
RECURSIVE Listings(_, _)
Listings(S, n) ==
  IF n = 0 THEN {<<>>}
  ELSE {<<>>} \cup UNION {{<<x>> \o l : l \in Listings(S \ {x}, n - 1)} : x \in S}

\* a listing of a set of numbers in descending order
RECURSIVE Descending(_)
Descending(S) ==
  IF S = {} THEN <<>>
  ELSE LET m == CHOOSE x \in S : \A y \in S : y <= x
       IN  <<m>> \o Descending(S \ {m})

Tree(exists, caseSensitive, modes) ==
  [exists |-> exists, caseSensitive |-> caseSensitive, modes |-> modes]

DirFolder(name, files, dirs) ==
  [name |-> name, isdir |-> TRUE, files |-> files, dirs |-> dirs]

\* one entry folder with the first Len(c) entry files: file k is unreadable
\* (c[k] = -1), empty (0) or has n rows (1)
EntryFolder(c, n) ==
  DirFolder(Date1,
            [k \in 1..Len(c) |-> [name |-> EntryName(k), content |-> ContentOf(k, c[k] * n)]]
            \o OtherFiles,
            <<>>)

EntryTrees ==
  {Tree(TRUE, TRUE, << [name |-> EntryMode, folders |-> <<EntryFolder(c, n)>>] >>)
     : c \in UNION {[1..m -> -1..1] : m \in 0..MaxFiles}, n \in 1..MaxRows}

\* one exit folder with at most MaxFiles of the exit files, listed in descending
\* order of their numbers, all with the same number of rows
ExitFolder(S, n) ==
  LET l == Descending(S) IN
  DirFolder(Date1,
            [k \in 1..Len(l) |-> [name |-> ExitNames[l[k]], content |-> Good(l[k], n)]],
            <<>>)

ExitTrees ==
  {Tree(TRUE, TRUE, << [name |-> ExitMode, folders |-> <<ExitFolder(S, n)>>] >>)
     : S \in {T \in SUBSET (1..Len(ExitNames)) : Cardinality(T) <= MaxFiles},
       n \in 1..MaxRows}

\* the images named by the rows of the files
AllImages == {ImageName(f, k) : f \in 1..2, k \in 1..MaxRows}

\* names of image directories: of the code's candidates and of the other
\* candidates of the four-step search, for Date1 and for the files of ImageTrees
DateNightImages == Date1 \o <<" ">> \o NightImages
DateDayImages == Date1 \o <<" ">> \o DayImages
DateImages == Date1 \o ImagesSuffix
CapNightImages == <<"N","i","g","h","t","_","i","m","a","g","e","s">>
DateCapNightImages == Date1 \o <<" ">> \o CapNightImages
XImages == <<"x","_","i","m","a","g","e","s">>
CImages == <<"c","_","i","m","a","g","e","s">>
AImages == <<"a","_","i","m","a","g","e","s">>

ExitDirNames ==
  {DateNightImages, NightImages, DateDayImages, DayImages, XImages, DateImages,
   CapNightImages}
EntryDirNames ==
  {CImages, AImages, DateImages, CapNightImages, DateCapNightImages, NightImages}

\* no two names of the set are the same name on a file system that ignores case
NoClash(names, caseSensitive) ==
  caseSensitive \/ \A a \in names : \A b \in names : Lower(a) = Lower(b) => a = b

\* the at most MaxDirs directories of a folder, in a listing order, all with the
\* images in them or all without
DirListings(names, caseSensitive) ==
  {[k \in 1..Len(l) |-> [name |-> l[k], images |-> imgs]]
     : l \in {m \in {SortedStrings(D) : D \in SUBSET names} :
                Len(m) <= MaxDirs /\ NoClash(Range(m), caseSensitive)},
       imgs \in {{}, AllImages}}

\* the one or two files of a folder of ImageTrees, with or without an image column
ImageFiles(names) ==
  {[k \in 1..Len(c) |-> [name |-> names[k],
                         content |-> IF c[k] THEN Good(k, MaxRows) ELSE NoImage(k, 1)]]
     : c \in [1..1 -> BOOLEAN] \cup [1..2 -> BOOLEAN]}

\* one folder of one mode with one or two files and at most MaxDirs directories
ImageTreesOf(cs) ==
  {Tree(TRUE, cs, << [name |-> EntryMode,
                      folders |-> <<DirFolder(Date1, files, dirs)>>] >>)
     : files \in ImageFiles(<<EntryName(1), EntryName(2)>>),
       dirs \in DirListings(EntryDirNames, cs)}
  \cup
  {Tree(TRUE, cs, << [name |-> ExitMode,
                      folders |-> <<DirFolder(Date1, files, dirs)>>] >>)
     : files \in ImageFiles(<<ExitNames[1], ExitNames[2]>>),
       dirs \in DirListings(ExitDirNames, cs)}

ImageTrees == ImageTreesOf(TRUE) \cup ImageTreesOf(FALSE)

\* the mode directories under the names given (<<>>: no such directory), each
\* with one folder of one file
EntryDirNamesTried == {<<>>, EntryMode, <<"E","n","t","r","y">>, <<"E","N","T","R","Y">>}
ExitDirNamesTried == {<<>>, ExitMode, <<"E","x","i","t">>}

OneFileFolder(name) ==
  DirFolder(Date1, <<[name |-> name, content |-> Good(1, MaxRows)]>>, <<>>)

CaseTrees ==
  {Tree(TRUE, cs,
        (IF e = <<>> THEN <<>>
         ELSE <<[name |-> e, folders |-> <<OneFileFolder(EntryName(1))>>]>>)
        \o (IF x = <<>> THEN <<>>
            ELSE <<[name |-> x, folders |-> <<OneFileFolder(ExitNames[1])>>]>>))
     : cs \in BOOLEAN, e \in EntryDirNamesTried, x \in ExitDirNamesTried}
  \cup {Tree(FALSE, cs, <<>>) : cs \in BOOLEAN}

\* the files of a date folder: which of its three files are unreadable (-1),
\* empty (0) or have rows
FilePatterns ==
  { <<MaxRows, 1, MaxRows>>, <<MaxRows, 0, -1>>, <<0, MaxRows, 1>>, <<-1, 0, -1>> }

PatternFolder(name, names, c) ==
  DirFolder(name,
            [k \in 1..Len(names) |-> [name |-> names[k], content |-> ContentOf(k, c[k])]],
            <<>>)

\* a date folder whose first file has no image column while its image
\* directory exists
MalformedFolder(name, names) ==
  DirFolder(name,
            << [name |-> names[1], content |-> NoImage(1, MaxRows)],
               [name |-> names[2], content |-> Good(2, 1)],
               [name |-> names[3], content |-> Good(3, MaxRows)] >>,
            << [name |-> IF names[1] = EntryName(1) THEN CImages ELSE NightImages,
                images |-> AllImages] >>)

EntryNames3 == <<EntryName(1), EntryName(2), EntryName(3)>>
ExitNames3 == <<ExitNames[1], ExitNames[2], ExitNames[3]>>

\* what a mode directory may hold: date folders, a date folder with a malformed
\* file, folders whose name is no date, and a plain file
FolderChoices(names) ==
  {PatternFolder(d, names, c) : d \in {Date1, Date2}, c \in FilePatterns}
  \cup {MalformedFolder(Date1, names)}
  \cup {PatternFolder(d, names, <<MaxRows, 1, MaxRows>>) : d \in {NoDate, BadDate}}
  \cup {[name |-> PlainFile, isdir |-> FALSE, files |-> <<>>, dirs |-> <<>>]}

DistinctNames(l) ==
  \A a \in 1..Len(l) : \A b \in 1..Len(l) : l[a].name = l[b].name => a = b

FolderListings(names, n) ==
  {l \in Listings(FolderChoices(names), n) : DistinctNames(l)}

\* both mode directories; the entry directory lists at most MaxFolders entries
\* in any order, the exit directory at most one date folder
FolderTrees ==
  {Tree(TRUE, TRUE, << [name |-> EntryMode, folders |-> e],
                       [name |-> ExitMode, folders |-> x] >>)
     : e \in FolderListings(EntryNames3, MaxFolders),
       x \in {l \in FolderListings(ExitNames3, 1) :
                \A k \in 1..Len(l) : l[k].name \in {Date1, Date2}
                                     /\ l[k].files[1].content.rows # <<>>}}

WalkTrees == CaseTrees \cup FolderTrees

(***************************************************************************)
(* The specifications: the script run on the trees of one family.          *)
(***************************************************************************)
Start ==
  /\ pc = "modes"
  /\ modes_left = ModeList
  /\ mode = <<>>
  /\ folders_left = <<>>
  /\ folder = <<>>
  /\ csv_files = <<>>
  /\ i = 0
  /\ all_data = <<>>
  /\ printed = <<>>
  /\ df_all = <<>>
  /\ dates_left = <<>>
  /\ event_summary = <<>>

InitClassify == fs \in EntryTrees \cup ExitTrees /\ Start
InitImages == fs \in ImageTrees /\ Start
InitWalk == fs \in WalkTrees /\ Start
Init == fs \in EntryTrees \cup ExitTrees \cup ImageTrees \cup WalkTrees /\ Start

SpecClassify == InitClassify /\ [][Next]_vars
SpecImages == InitImages /\ [][Next]_vars
SpecWalk == InitWalk /\ [][Next]_vars
Spec == Init /\ [][Next]_vars

(***************************************************************************)
(* What the claims are stated with.  Nothing below is computed by the      *)
(* script; every expected value is read off the directory tree.            *)
(***************************************************************************)
\* load_all_data has returned df_all
Returned == pc = "loaded"

\* the folder a record was read from, and the name of its file
FolderOf(r) == CHOOSE f \in FolderEntries(r.src.path) : f.isdir
FileOf(r) == r.src.path[3]

\* the names in a folder that end in ".csv", whatever the files hold
CsvNamesIn(f) ==
  {n \in {f.files[k].name : k \in 1..Len(f.files)}
         \cup {f.dirs[k].name : k \in 1..Len(f.dirs)} :
     Len(n) >= 4 /\ n[Len(n) - 3] = "." /\ n[Len(n) - 2] = "c"
     /\ n[Len(n) - 1] = "s" /\ n[Len(n)] = "v"}

\* 0-based position of a name in the ascending order of a set of names
PositionIn(names, n) == Cardinality({o \in names : StrLess(o, n)})

OrdinalOf(r) == PositionIn(CsvNamesIn(FolderOf(r)), FileOf(r))
TotalOf(r) == Cardinality(CsvNamesIn(FolderOf(r)))

EntryRecords == {r \in Range(df_all) : r.src.path[1] = EntryMode}
ExitRecords == {r \in Range(df_all) : r.src.path[1] = ExitMode}

\* the entry folders of the tree that hold exactly four .csv files of two rows
FourByTwoFolders ==
  {f \in UNION {Range(m.folders) : m \in ModeDirs(<<EntryMode>>)} :
     /\ f.isdir /\ DateMatches(f.name)
     /\ Cardinality(CsvNamesIn(f)) = 4
     /\ \A k \in 1..Len(f.files) :
          f.files[k].name \in CsvNamesIn(f)
            => f.files[k].content.readable /\ Len(f.files[k].content.rows) = 2}

\* C1: every record of an entry file at 0-based position i among the N .csv
\* files of its folder, in ascending name order, is tagged Night exactly when
\* i >= N - 3 and Day otherwise; so all files are Night when N <= 3, positions
\* 0 and 1 are Day and 2, 3, 4 Night when N = 5, and a folder of four files of
\* two rows each counts Day = 2 and Night = 6.
C1_EntryNightRule ==
  Returned =>
  /\ \A r \in EntryRecords :
       /\ r.time_of_day \in {"Day", "Night"}
       /\ r.time_of_day = "Night" <=> OrdinalOf(r) >= TotalOf(r) - 3
       /\ TotalOf(r) <= 3 => r.time_of_day = "Night"
       /\ TotalOf(r) = 5 =>
            /\ OrdinalOf(r) \in {0, 1} => r.time_of_day = "Day"
            /\ OrdinalOf(r) \in {2, 3, 4} => r.time_of_day = "Night"
  /\ \A f \in FourByTwoFolders :
         /\ DailyCount(df_all, ParseDate(f.name), "Day", EntryLabel) = 2
         /\ DailyCount(df_all, ParseDate(f.name), "Night", EntryLabel) = 6

\* C1's case: a folder of five files loaded with both tags, or the four files
\* of two rows loaded
C1_Witness ==
  /\ pc = "loaded"
  /\ \/ /\ \E r \in EntryRecords : TotalOf(r) = 5 /\ OrdinalOf(r) = 1
        /\ \E r \in EntryRecords : TotalOf(r) = 5 /\ OrdinalOf(r) = 2
     \/ FourByTwoFolders # {} /\ Len(df_all) = 8

\* "night" in any casing occurs in the name
NightUpper == <<"N","I","G","H","T">>
HasNightAnyCase(n) ==
  \E p \in 1..Len(n) :
    /\ p + 4 <= Len(n)
    /\ \A j \in 1..5 : n[p + j - 1] \in {NightWord[j], NightUpper[j]}

\* C2: every record of an exit file is tagged Night exactly when the file's
\* name contains "night" in any casing, and Day otherwise, wherever the file
\* stands in the folder and however many files there are.
C2_ExitNightByName ==
  Returned =>
  \A r \in ExitRecords :
    /\ r.time_of_day \in {"Day", "Night"}
    /\ r.time_of_day = "Night" <=> HasNightAnyCase(FileOf(r))

\* C2's case: among at least four exit files, the first is tagged Night and the
\* last Day, which the positional rule would tag the other way round
C2_Witness ==
  /\ pc = "loaded"
  /\ \E r \in ExitRecords :
       TotalOf(r) >= 4 /\ OrdinalOf(r) = 0 /\ r.time_of_day = "Night"
  /\ \E r \in ExitRecords :
       TotalOf(r) >= 4 /\ OrdinalOf(r) = TotalOf(r) - 1 /\ r.time_of_day = "Day"

\* C10: the position and the total of the entry rule are taken over all names
\* of the folder ending in ".csv", in ascending order, also those of files
\* skipped as empty or unreadable: the list of the loop is that list, the loop
\* index counts skipped files too, and a record's tag is the rule applied to
\* its file's position in that list.
C10_OrdinalCountsSkipped ==
  /\ pc = "files" =>
       LET names == CsvNamesIn(CHOOSE f \in FolderEntries(<<mode, folder>>) : f.isdir)
       IN  /\ Len(csv_files) = Cardinality(names)
           /\ \A k \in 1..Len(csv_files) :
                csv_files[k] \in names /\ PositionIn(names, csv_files[k]) = k - 1
           /\ i <= Len(csv_files)
  /\ Returned =>
       \A r \in EntryRecords :
         r.time_of_day = (IF OrdinalOf(r) + 3 >= TotalOf(r) THEN "Night" ELSE "Day")

\* C10's case: in a folder of at least four files, a file among the last three
\* was skipped and a file before the last three was loaded and tagged Day
C10_Witness ==
  /\ Returned
  /\ \E r \in EntryRecords :
       /\ r.time_of_day = "Day" /\ TotalOf(r) >= 4 /\ OrdinalOf(r) = TotalOf(r) - 4
       /\ \E k \in 1..Len(FolderOf(r).files) :
            LET f == FolderOf(r).files[k] IN
            /\ f.name \in CsvNamesIn(FolderOf(r))
            /\ PositionIn(CsvNamesIn(FolderOf(r)), f.name) >= TotalOf(r) - 3
            /\ ~f.content.readable \/ f.content.rows = <<>>

\* a directory of the folder answers to the name
DirIn(f, name) == \E k \in 1..Len(f.dirs) : NameMatch(f.dirs[k].name, name)

\* a directory of the record's folder answers to the name
DirThere(r, name) == DirIn(FolderOf(r), name)

\* the record's file name up to the log mark of its mode
PrefixOf(r) ==
  SplitFirst(FileOf(r), IF r.src.path[1] = EntryMode THEN EntryLogMark ELSE ExitLogMark)

TimeWord(r) == IF r.time_of_day = "Night" THEN NightWord ELSE <<"d","a","y">>

\* the four candidates of the uniform search, most specific first
FourCandidates(r) ==
  << r.src.path[2] \o <<" ">> \o TimeWord(r) \o ImagesSuffix,
     TimeWord(r) \o ImagesSuffix,
     PrefixOf(r) \o ImagesSuffix,
     r.src.path[2] \o ImagesSuffix >>

\* the candidates the script tries for a file of a mode, a folder and a time
\* of day
TriedFor(m, fname, ename, night) ==
  IF m = EntryMode THEN << SplitFirst(ename, EntryLogMark) \o ImagesSuffix >>
  ELSE IF night
    THEN << fname \o <<" ">> \o NightImages, NightImages >>
    ELSE << fname \o <<" ">> \o DayImages, SplitFirst(ename, ExitLogMark) \o ImagesSuffix >>

TriedCandidates(r) ==
  TriedFor(r.src.path[1], r.src.path[2], FileOf(r), r.time_of_day = "Night")

\* the image's path in the first candidate that is there, None when none is
FirstThere(r, cands) ==
  LET there == {k \in 1..Len(cands) : DirThere(r, cands[k])} IN
  IF there = {} THEN None
  ELSE Some(<<r.src.path[1], r.src.path[2], cands[Min(there)], r.image>>)

\* the scenario of the claim: a record of night_exit_log.csv in 01-01-2024, no
\* night_images and no "01-01-2024 night_images" there, 01-01-2024_images there
NightExitScenario(r) ==
  /\ r.src.path = <<ExitMode, Date1, ExitNames[1]>>
  /\ ~DirThere(r, NightImages) /\ ~DirThere(r, DateNightImages)
  /\ DirThere(r, DateImages)

ImageThere(r, path) ==
  \E k \in 1..Len(FolderOf(r).dirs) :
    /\ NameMatch(FolderOf(r).dirs[k].name, path[3])
    /\ \E n \in FolderOf(r).dirs[k].images : NameMatch(n, path[4])

\* C4 as claimed: every record's image path is null or a path that exists, its
\* directory and its image file, and it is null when none of the candidate
\* directories exists.
C4_NullOrExisting ==
  Returned =>
    \A r \in Range(df_all) :
      /\ r.image_path # None =>
           DirThere(r, r.image_path.v[3]) /\ ImageThere(r, r.image_path.v)
      /\ (\A k \in 1..4 : ~DirThere(r, FourCandidates(r)[k])) => r.image_path = None

\* C4 as amended: every record's image path is null or the record's image name
\* joined to a directory that exists, and it is null when none of the
\* candidate directories exists; whether the image file exists is not looked at.
C4_NullOrInExistingDir ==
  Returned =>
    \A r \in Range(df_all) :
      /\ r.image_path # None =>
           /\ Len(r.image_path.v) = 4
           /\ SubSeq(r.image_path.v, 1, 2) = SubSeq(r.src.path, 1, 2)
           /\ DirThere(r, r.image_path.v[3])
           /\ r.image_path.v[4] = r.image
      /\ (\A k \in 1..Len(TriedCandidates(r)) : ~DirThere(r, TriedCandidates(r)[k]))
           => r.image_path = None
      /\ (\A k \in 1..4 : ~DirThere(r, FourCandidates(r)[k])) => r.image_path = None

\* C4's case: a record has a path into a directory that exists and another has
\* none because no candidate directory exists
C4_Witness ==
  /\ Returned
  /\ \E r \in Range(df_all) : r.image_path # None /\ DirThere(r, r.image_path.v[3])
  /\ \E r \in Range(df_all) :
       r.image_path = None /\ \A k \in 1..4 : ~DirThere(r, FourCandidates(r)[k])

\* the directories of the base path named entry or exit in any casing
ModeDirsAnyCase ==
  IF fs.exists
    THEN {m \in Range(fs.modes) : Lower(m.name) \in {EntryMode, ExitMode}}
    ELSE {}

\* the directories the paths base/entry and base/exit lead to
ModeDirsFound == UNION {ModeDirs(<<m>>) : m \in Range(ModeList)}

\* a session file of a mode directory that is well-formed: it can be read, has
\* rows, and has an image column unless none of its image directories exists
\* (the column is then not read); and its folder's name is a date
Loadable(m, f, e) ==
  /\ f.isdir /\ DateMatches(f.name)
  /\ e.name \in CsvNamesIn(f)
  /\ e.content.readable /\ e.content.rows # <<>>
  /\ \/ e.content.hasImage
     \/ LET tried == TriedFor(Lower(m.name), f.name, e.name, HasNightAnyCase(e.name))
        IN  \A k \in 1..Len(tried) : ~DirIn(f, tried[k])

\* the ids of the table's rows that come from a file
IdsFrom(label, fname, ename) ==
  LET From(r) == r.mode = label /\ r.src.path[2] = fname /\ r.src.path[3] = ename
      rows == SelectSeq(df_all, From)
  IN  [k \in 1..Len(rows) |-> rows[k].id]

IdsIn(e) == [k \in 1..Len(e.content.rows) |-> e.content.rows[k].id]

\* every file of the mode directories given contributed its rows if it is
\* loadable and nothing if it is not
FilesAccountedFor(dirs) ==
  \A m \in dirs : \A f \in Range(m.folders) : \A e \in Range(f.files) :
    IdsFrom(Capitalize(m.name), f.name, e.name)
      = IF Loadable(m, f, e) THEN IdsIn(e) ELSE <<>>

\* C5 as claimed: the walk finds the mode directories whatever their casing:
\* the records of every directory named entry or exit in any casing are
\* loaded, and a mode without a directory is skipped without error while the
\* other mode is loaded.
C5_AnyCasingFound ==
  /\ pc # "raised"
  /\ Returned => FilesAccountedFor(ModeDirsAnyCase)

\* the key (mode, date, ordinal, row) of a record
ModeRank(r) == IF r.mode = EntryLabel THEN 0 ELSE 1

KeyLess(a, b) ==
  \/ ModeRank(a) < ModeRank(b)
  \/ /\ ModeRank(a) = ModeRank(b)
     /\ \/ DateLess(a.date, b.date)
        \/ /\ a.date = b.date
           /\ \/ OrdinalOf(a) < OrdinalOf(b)
              \/ OrdinalOf(a) = OrdinalOf(b) /\ a.src.row < b.src.row

\* C6 as claimed: the returned table is ordered by (mode, date, ordinal, row)
\* whatever the order in which the date folders are listed.
C6_OrderedByDate ==
  Returned => \A k \in 1..(Len(df_all) - 1) : KeyLess(df_all[k], df_all[k + 1])

\* the columns of a record (src is the model's bookkeeping)
RecordColumns == {"id", "image", "plate", "date", "time_of_day", "image_path", "mode", "src"}

NothingLoadable ==
  \A m \in ModeDirsFound : \A f \in Range(m.folders) : \A e \in Range(f.files) :
    ~Loadable(m, f, e)

\* what load_all_data returns for a base path that does not exist
ResultForMissingBase == Concat(<<>>)

\* the rows of the loadable files and nothing else: the table of a tree in
\* which the skipped files and folders do not exist
PlainTable == FilesAccountedFor(ModeDirsFound)

C8_FailuresAreLocal ==
  /\ pc # "raised"
  /\ Returned => FilesAccountedFor(ModeDirsFound)

\* C8's case: in one mode directory a folder holds an unreadable file, an empty
\* file and a loaded one, and a sibling folder whose name is no date holds a
\* file with rows; in the other a file without the image column was skipped
\* and its siblings loaded; and the table is returned
C8_Witness ==
  /\ Returned
  /\ \E m \in ModeDirsFound : \E f \in Range(m.folders) :
       /\ \E e \in Range(f.files) :
            e.content.rows # <<>> /\ ~e.content.hasImage /\ ~Loadable(m, f, e)
       /\ \E e \in Range(f.files) :
            Loadable(m, f, e) /\ IdsFrom(Capitalize(m.name), f.name, e.name) # <<>>
  /\ \E m \in ModeDirsFound :
       /\ \E f \in Range(m.folders) :
            /\ \E e \in Range(f.files) : ~e.content.readable
            /\ \E e \in Range(f.files) : e.content.readable /\ e.content.rows = <<>>
            /\ \E e \in Range(f.files) :
                 Loadable(m, f, e) /\ IdsFrom(Capitalize(m.name), f.name, e.name) # <<>>
       /\ \E f \in Range(m.folders) :
            /\ f.isdir /\ ~DateMatches(f.name)
            /\ \E e \in Range(f.files) : e.content.rows # <<>>

\* the (date, mode) pairs that have a record
PairsWithRecords == {<<df_all[k].date, df_all[k].mode>> : k \in 1..Len(df_all)}

\* the loadable files <<mode directory, folder, file>> of a date and a mode
Contributing(p) ==
  UNION {UNION {{<<m, f, e>> : e \in {x \in Range(f.files) : Loadable(m, f, x)}}
                  : f \in {g \in Range(m.folders) :
                             g.isdir /\ DateMatches(g.name) /\ ParseDate(g.name) = p[1]}}
           : m \in {d \in ModeDirsFound : Capitalize(d.name) = p[2]}}

\* of them, the file of the lowest and of the highest name
LowestFile(p) ==
  CHOOSE t \in Contributing(p) :
    \A u \in Contributing(p) : u = t \/ StrLess(t[3].name, u[3].name)
HighestFile(p) ==
  CHOOSE t \in Contributing(p) :
    \A u \in Contributing(p) : u = t \/ StrLess(u[3].name, t[3].name)

\* the table's record of a row of a file
RecordOf(t, row) ==
  CHOOSE r \in Range(df_all) :
    r.src = [path |-> <<Lower(t[1].name), t[2].name, t[3].name>>, row |-> row]

\* the summary rows of a date and a mode
SummaryOf(p) ==
  {k \in 1..Len(event_summary) :
     event_summary[k].Date = p[1] /\ event_summary[k].Mode = p[2]}

\* C9: when the summary loop has ended, every (date, mode) pair with a record
\* has exactly one summary row; its first event is the first row of the
\* lowest-ordinal file that contributed records to the pair and its last event
\* the last row of the highest-ordinal such file; a pair without a record has
\* no row.
C9_FirstLastInParsedOrder ==
  pc = "done" =>
    /\ \A p \in PairsWithRecords :
         /\ Cardinality(SummaryOf(p)) = 1
         /\ Contributing(p) # {}
         /\ LET row == event_summary[CHOOSE k \in SummaryOf(p) : TRUE]
                lo == LowestFile(p)
                hi == HighestFile(p)
                first == RecordOf(lo, 1)
                last == RecordOf(hi, Len(hi[3].content.rows))
            IN  /\ row.FirstVehicleID = lo[3].content.rows[1].id
                /\ row.FirstVehicleID = first.id
                /\ row.FirstPlate = first.plate
                /\ row.FirstImagePath = first.image_path
                /\ row.LastVehicleID = hi[3].content.rows[Len(hi[3].content.rows)].id
                /\ row.LastVehicleID = last.id
                /\ row.LastPlate = last.plate
                /\ row.LastImagePath = last.image_path
    /\ \A k \in 1..Len(event_summary) :
         <<event_summary[k].Date, event_summary[k].Mode>> \in PairsWithRecords
    /\ Len(event_summary) = Cardinality(PairsWithRecords)

\* C9's case: three pairs have a row, and for one of them the file of the
\* lowest name in its folder was skipped and so was the file of the highest
\* name in another's, and first and last event differ
C9_Witness ==
  /\ pc = "done"
  /\ Len(event_summary) >= 3
  /\ \E p \in PairsWithRecords :
       /\ \E e \in Range(LowestFile(p)[2].files) :
            StrLess(e.name, LowestFile(p)[3].name) /\ e.name \in CsvNamesIn(LowestFile(p)[2])
       /\ event_summary[CHOOSE k \in SummaryOf(p) : TRUE].FirstVehicleID
            # event_summary[CHOOSE k \in SummaryOf(p) : TRUE].LastVehicleID
  /\ \E p \in PairsWithRecords :
       \E e \in Range(HighestFile(p)[2].files) :
         StrLess(HighestFile(p)[3].name, e.name) /\ e.name \in CsvNamesIn(HighestFile(p)[2])

====
